---- MODULE Spec2Model ----
(***************************************************************************)
(* Model of src/src/analysis.py: the annotation, grouping, polarity merge  *)
(* and global-max normalisation of LC-MS feature tables.                   *)
(*                                                                         *)
(* Numbers.  m/z and retention time are held as integers counting units of *)
(* 1e-5 (100.00001 is 10000001), so that the tolerance comparison of       *)
(* numpy.isclose is exact integer arithmetic.  The input values are chosen *)
(* away from the rounding boundary of the comparison, where binary         *)
(* floating point could decide otherwise.  Intensities are naturals.       *)
(*                                                                         *)
(* Strings.  A Python str is a sequence of one-character strings.  The     *)
(* missing value NaN of an object column is the sequence NaN, which no str *)
(* equals.                                                                 *)
(*                                                                         *)
(* Tables.  A pandas.DataFrame is a record                                 *)
(*   [columns : set of column names, index : sequence of row labels,       *)
(*    rows : sequence of functions column -> cell].                        *)
(* A numeric cell that is NaN is a column missing from the row's DOMAIN.   *)
(***************************************************************************)
EXTENDS Integers, Sequences, FiniteSets, TLC

VARIABLES pc, cm_df, ams_df, keep_unidentified, annotated, err, grouped,
          df_neg, df_pos, combined, normalized, threshold,
          df, sample_pairs, replicates, df_mean, df_std, df_change, df_scaled

\* the argument and the results of the replicate statistics and of the
\* per-column scaling
statVars == <<df, sample_pairs, replicates, df_mean, df_std, df_change, df_scaled>>

vars == <<pc, cm_df, ams_df, keep_unidentified, annotated, err, grouped,
          df_neg, df_pos, combined, normalized, threshold, statVars>>

\* ------------------------------------------------------------------ bounds
MaxFeatures == 2
MaxHits == 2
MaxCell == 1
MaxAbs == 3

\* --------------------------------------------------------------- constants
\* atol=1e-05 of the np.isclose calls, in units of 1e-5
ATOL == 1
\* 1 / rtol, rtol = 1e-05 being the default np.isclose adds to atol
RTOL_INV == 100000
\* ----------------------------------------------------------------- strings
NaN == <<"NaN">>

Abs(x) == IF x < 0 THEN -x ELSE x

\* ch in s
Contains(s, ch) == \E i \in 1..Len(s) : s[i] = ch

\* s[:-1]
DropLast(s) == IF Len(s) = 0 THEN s ELSE SubSeq(s, 1, Len(s) - 1)

\* position of the first ch in s, 0 when there is none
FirstPos(s, ch) ==
    IF Contains(s, ch) THEN CHOOSE i \in 1..Len(s) : s[i] = ch /\ \A j \in 1..(i - 1) : s[j] # ch
    ELSE 0

RECURSIVE Split(_, _)
\* s.split(ch): the list of the pieces of s between the occurrences of ch
Split(s, ch) ==
    IF ~Contains(s, ch) THEN <<s>>
    ELSE <<SubSeq(s, 1, FirstPos(s, ch) - 1)>> \o Split(SubSeq(s, FirstPos(s, ch) + 1, Len(s)), ch)

\* code points of the characters the model's strings are made of
Ord(ch) ==
    CASE ch = "+" -> 43 [] ch = "-" -> 45 [] ch = "." -> 46 [] ch = "/" -> 47
      [] ch = "0" -> 48 [] ch = "1" -> 49 [] ch = "2" -> 50 [] ch = "3" -> 51
      [] ch = "4" -> 52 [] ch = "5" -> 53 [] ch = "6" -> 54 [] ch = "7" -> 55
      [] ch = "8" -> 56 [] ch = "9" -> 57 [] ch = ";" -> 59
      [] ch = "F" -> 70 [] ch = "G" -> 71 [] ch = "H" -> 72 [] ch = "M" -> 77
      [] ch = "N" -> 78 [] ch = "[" -> 91 [] ch = "]" -> 93
      [] ch = "a" -> 97 [] ch = "c" -> 99 [] ch = "e" -> 101 [] ch = "l" -> 108
      [] ch = "n" -> 110 [] ch = "o" -> 111 [] ch = "r" -> 114 [] ch = "s" -> 115
      [] ch = "t" -> 116 [] ch = "u" -> 117
      [] OTHER -> 0

RECURSIVE StrLess(_, _)
\* a < b for two str, the order groupby sorts its keys by
StrLess(a, b) ==
    IF Len(b) = 0 THEN FALSE
    ELSE IF Len(a) = 0 THEN TRUE
    ELSE IF Ord(a[1]) # Ord(b[1]) THEN Ord(a[1]) < Ord(b[1])
    ELSE StrLess(Tail(a), Tail(b))

RECURSIVE SortedKeys(_)
\* the str of the set S in ascending order
SortedKeys(S) ==
    IF S = {} THEN <<>>
    ELSE LET m == CHOOSE x \in S : \A y \in S \ {x} : StrLess(x, y)
         IN <<m>> \o SortedKeys(S \ {m})

Digits == {"0", "1", "2", "3", "4", "5", "6", "7", "8", "9"}

RECURSIVE DigitsValue(_)
DigitsValue(s) == IF Len(s) = 0 THEN 0 ELSE 10 * DigitsValue(DropLast(s)) + (Ord(s[Len(s)]) - 48)

RECURSIVE PadRight(_, _)
PadRight(s, n) == IF Len(s) >= n THEN s ELSE PadRight(Append(s, "0"), n)

\* float(x) of a hit field: a float is itself; a str of the form
\* digits[.digits] (at most five decimals) is its value in units of 1e-5;
\* any other str of the model's inputs raises ValueError
IsDecimal(s) ==
    LET p == FirstPos(s, ".")
        ip == IF p = 0 THEN s ELSE SubSeq(s, 1, p - 1)
        fp == IF p = 0 THEN <<>> ELSE SubSeq(s, p + 1, Len(s))
    IN /\ Len(ip) + Len(fp) > 0
       /\ Len(fp) <= 5
       /\ \A i \in 1..Len(ip) : ip[i] \in Digits
       /\ \A i \in 1..Len(fp) : fp[i] \in Digits

DecimalValue(s) ==
    LET p == FirstPos(s, ".")
        ip == IF p = 0 THEN s ELSE SubSeq(s, 1, p - 1)
        fp == IF p = 0 THEN <<>> ELSE SubSeq(s, p + 1, Len(s))
    IN DigitsValue(ip) * 100000 + DigitsValue(PadRight(fp, 5))

FloatOk(x) == x.kind = "float" \/ IsDecimal(x.text)

Float(x) == IF x.kind = "float" THEN x.value ELSE DecimalValue(x.text)

\* ------------------------------------------------------------------ inputs
Glucose == <<"G", "l", "u", "c", "o", "s", "e">>
Fructose == <<"F", "r", "u", "c", "t", "o", "s", "e">>

SampleColumns == {"sample1", "sample2"}

\* the columns of the consensus-feature table (ConsensusMap.get_df())
FeatureColumns == {"sequence", "charge", "RT", "mz", "quality"} \cup SampleColumns

Feature(mz, rt, q, i1, i2) ==
    [sequence |-> <<>>, charge |-> 1, RT |-> rt, mz |-> mz, quality |-> q,
     sample1 |-> i1, sample2 |-> i2]

\* quality is held in hundredths (0.5 is 50)
Features ==
    { Feature(10000001, 20000001, 50, 10, 20),
      Feature(10000050, 20000001, 50, 5, 0),
      Feature(9999950, 20000001, 0, 7, 1),
      Feature(10002000, 20000300, 50, 1, 1) }

Num(n) == [kind |-> "float", value |-> n, text |-> <<>>]
Txt(s) == [kind |-> "str", value |-> 0, text |-> s]

Hit(rt, mz, name, adduct) ==
    [retention_time |-> rt, exp_mass_to_charge |-> mz, description |-> name,
     opt_global_adduct_ion |-> adduct]

Hits ==
    { Hit(Num(20000000), Num(10000000), Glucose, <<"[", "M", "+", "H", "]", "+", ";", "1", "+">>),
      Hit(Txt(<<"2", "0", "0", ".", "0">>), Num(10000051), Fructose, <<"M", "+", "N", "a", ";", "1", "+">>),
      Hit(Num(20000000), Txt(<<"n", "/", "a">>), Glucose, <<"M", "+", "H", ";", "1", "+">>),
      Hit(Txt(<<>>), Num(10000000), Glucose, <<"M", "+", "H", ";", "1", "+">>),
      Hit(Num(20000000), Num(10000000), Fructose, <<"M", "+", "H">>),
      Hit(Num(20000000), Num(10003000), Fructose, <<"M", "+", "H">>) }

SeqsUpTo(S, n) == UNION { [1..k -> S] : k \in 0..n }

EmptyFrame == [columns |-> {}, index |-> <<>>, rows |-> <<>>]

\* a table as FeatureEngine hands it over: dense row labels 0..n-1
FeatureTables ==
    { [columns |-> FeatureColumns, index |-> [i \in 1..Len(r) |-> i - 1], rows |-> r] :
        r \in SeqsUpTo(Features, MaxFeatures) }

HitTables == SeqsUpTo(Hits, MaxHits)

\* quality thresholds handed to filter_df, in hundredths: the 0 of
\* workflows.id_by_mz and 0.6
Thresholds == {0, 60}

Compounds == {Glucose, Fructose}

\* tables of numbers of either sign, cells -MaxAbs..MaxAbs
ScalingTables ==
    UNION { UNION { { [columns |-> C, index |-> SortedKeys(R),
                       rows |-> [i \in 1..Cardinality(R) |-> [c \in C |-> cells[SortedKeys(R)[i], c]]]] :
                      cells \in [R \X C -> (-MaxAbs)..MaxAbs] } :
                    C \in SUBSET SampleColumns } :
            R \in SUBSET Compounds }

\* sample names and the replicate columns of the statistics table
SampleC == <<"C">>
SampleCF == <<"C", "F">>
SampleBC == <<"B", "C">>
Replicate(name, k) == name \o <<"_", k>>
ReplicateColumns ==
    {Replicate(SampleC, "1"), Replicate(SampleC, "2"), Replicate(SampleCF, "1"),
     Replicate(SampleBC, "1")}

\* tables of replicate intensities: rows are compounds, cells 0..MaxCell
ReplicateTables ==
    UNION { UNION { { [columns |-> C, index |-> SortedKeys(R),
                       rows |-> [i \in 1..Cardinality(R) |-> [c \in C |-> cells[SortedKeys(R)[i], c]]]] :
                      cells \in [R \X C -> 0..MaxCell] } :
                    C \in SUBSET ReplicateColumns } :
            R \in SUBSET Compounds }

\* lists of (reference, treated) sample pairs
SamplePairLists ==
    { << <<SampleC, SampleCF>> >>,
      << <<SampleBC, SampleC>> >>,
      << <<SampleC, SampleCF>>, <<SampleC, SampleBC>> >> }

\* grouped tables: rows are compounds, columns are samples, cells 0..MaxCell
IntensityTables ==
    UNION { UNION { { [columns |-> C, index |-> SortedKeys(R),
                       rows |-> [i \in 1..Cardinality(R) |-> [c \in C |-> cells[SortedKeys(R)[i], c]]]] :
                      cells \in [R \X C -> 0..MaxCell] } :
                    C \in SUBSET SampleColumns } :
            R \in SUBSET Compounds }

\* ---------------------------------------------------------- frame helpers
Size(t) == Len(t.index)

\* positions of the rows of t that satisfy keep, in row order
RECURSIVE SelectPos(_, _)
SelectPos(n, keep) ==
    IF n = 0 THEN <<>>
    ELSE IF n \in keep THEN Append(SelectPos(n - 1, keep), n) ELSE SelectPos(n - 1, keep)

\* df[mask]: the rows at the positions of keep, with their labels
Rows(t, keep) ==
    LET pos == SelectPos(Size(t), keep)
    IN [t EXCEPT !.index = [i \in 1..Len(pos) |-> t.index[pos[i]]],
                 !.rows = [i \in 1..Len(pos) |-> t.rows[pos[i]]]]

\* df.drop(columns=cols)
Drop(t, cols) ==
    [t EXCEPT !.columns = t.columns \ cols,
              !.rows = [i \in 1..Size(t) |-> [c \in (DOMAIN t.rows[i]) \ cols |-> t.rows[i][c]]]]

\* the row r with cell c set to v (the column is added when it is new)
SetCell(r, c, v) == [x \in (DOMAIN r) \cup {c} |-> IF x = c THEN v ELSE r[x]]

\* df[col] = pd.Series(values): the Series carries labels 0..n-1 and is
\* aligned on the labels of df; a row whose label the Series lacks gets NaN
AssignSeries(t, col, values) ==
    [t EXCEPT !.columns = t.columns \cup {col},
              !.rows = [i \in 1..Size(t) |->
                          SetCell(t.rows[i], col,
                                  IF t.index[i] \in 0..(Len(values) - 1)
                                  THEN values[t.index[i] + 1] ELSE NaN)]]

\* ---------------------------------------------------------- annotate_cm_df
\* np.isclose(a, b, atol=1e-05): |a - b| <= atol + rtol * |b|, with the
\* default rtol = 1e-05; both sides are multiplied by 1 / rtol
IsClose(a, b) == Abs(a - b) * RTOL_INV <= ATOL * RTOL_INV + Abs(b)

\* np.isclose(mz, float(ams_mz), atol=1e-05) & np.isclose(RT, float(ams_rt), atol=1e-05)
\* for the feature values (mz, rt) and the hit values (ams_mz, ams_rt)
ToleranceMatcher(mz, rt, ams_mz, ams_rt) == IsClose(mz, ams_mz) /\ IsClose(rt, ams_rt)

\* the positions of the rows of t the hit is written to (lines 29-30)
Matches(t, hit) ==
    { i \in 1..Size(t) :
        ToleranceMatcher(t.rows[i].mz, t.rows[i].RT,
                         Float(hit.exp_mass_to_charge), Float(hit.retention_time)) }

\* '[' + a.split(';')[0] + ']' + a.split(';')[1] + ';'
AdductOk(a) == Len(Split(a, ";")) >= 2

\* FormatAdduct without the brackets around the ion formula
FormatAdduct_NoBrackets(a) == Split(a, ";")[1] \o Split(a, ";")[2] \o <<";">>

FormatAdduct(a) == <<"[">> \o Split(a, ";")[1] \o <<"]">> \o Split(a, ";")[2] \o <<";">>

\* lines 32-34 for one row: st is [frame, error]
AnnotateRow(st, i, hit) ==
    IF st.error # "none" THEN st
    ELSE IF st.frame.rows[i].id = NaN THEN [st EXCEPT !.error = "TypeError"]
    ELSE LET f1 == [st.frame EXCEPT !.rows[i].id = @ \o hit.description \o <<";">>]
         IN IF ~AdductOk(hit.opt_global_adduct_ion) THEN [frame |-> f1, error |-> "IndexError"]
            ELSE IF f1.rows[i].adduct = NaN THEN [frame |-> f1, error |-> "TypeError"]
            ELSE [frame |-> [f1 EXCEPT !.rows[i].adduct = @ \o FormatAdduct(hit.opt_global_adduct_ion)],
                  error |-> "none"]

RECURSIVE AnnotateRows(_, _, _)
AnnotateRows(st, pos, hit) ==
    IF pos = <<>> THEN st ELSE AnnotateRows(AnnotateRow(st, Head(pos), hit), Tail(pos), hit)

\* lines 29-34 for one hit
AnnotateHit(st, hit) ==
    IF st.error # "none" THEN st
    ELSE IF ~FloatOk(hit.exp_mass_to_charge) \/ ~FloatOk(hit.retention_time)
         THEN [st EXCEPT !.error = "ValueError"]
    ELSE AnnotateRows(st, SelectPos(Size(st.frame), Matches(st.frame, hit)), hit)

RECURSIVE AnnotateHits(_, _)
\* the loop of line 28 over the hit table, in its order
AnnotateHits(st, hits) ==
    IF hits = <<>> THEN st ELSE AnnotateHits(AnnotateHit(st, Head(hits)), Tail(hits))

\* lines 23-26: the two new columns, then the dense index
NewColumns(cm) ==
    LET blanks == [i \in 1..Size(cm) |-> <<>>]
        withCols == AssignSeries(AssignSeries(cm, "id", blanks), "adduct", blanks)
    IN [withCols EXCEPT !.index = [i \in 1..Size(cm) |-> i - 1]]

HasNaN(t, col) == \E i \in 1..Size(t) : t.rows[i][col] = NaN

\* StripColumn leaving the trailing separator in place
StripColumn_KeepSeparator(t, col) == t

\* lines 36-37: [item[:-1] if ';' in item else '' for item in df[col]]
StripColumn(t, col) ==
    [t EXCEPT !.rows = [i \in 1..Size(t) |->
        [t.rows[i] EXCEPT ![col] = IF Contains(@, ";") THEN DropLast(@) ELSE <<>>]]]

\* lines 39-43 on the frame the loop left
Finish(t, keep) ==
    LET d == Drop(t, {"sequence", "charge"})
    IN IF keep THEN d ELSE Rows(d, { i \in 1..Size(d) : d.rows[i].id # <<>> })

\* annotate_cm_df(cm_df, ams_df, keep_unidentified): frame is the caller's
\* table as the call leaves it, result the returned table, error the
\* exception raised ("none" when the call returns)
annotate_cm_df(cm, ams, keep) ==
    LET s1 == AnnotateHits([frame |-> NewColumns(cm), error |-> "none"], ams)
        s2 == StripColumn(s1.frame, "id")
        s3 == StripColumn(s2, "adduct")
        fail(f, e) == [frame |-> f, result |-> EmptyFrame, error |-> e]
    IN IF s1.error # "none" THEN fail(s1.frame, s1.error)
       ELSE IF HasNaN(s1.frame, "id") THEN fail(s1.frame, "TypeError")
       ELSE IF HasNaN(s2, "adduct") THEN fail(s2, "TypeError")
       ELSE IF ~({"sequence", "charge"} \subseteq s3.columns) THEN fail(s3, "KeyError")
       ELSE [frame |-> s3, result |-> Finish(s3, keep), error |-> "none"]

\* ---------------------------------------------------------------- filter_df
\* df[df['quality'] > 0]
filter_df(t, q) == Rows(t, { i \in 1..Size(t) : t.rows[i].quality > 0 })

\* ------------------------------------------------- group_metabolites_by_id
\* SumCells taking the first row of the group instead of the sum
SumCells_First(t, pos, c) ==
    IF pos = <<>> THEN 0
    ELSE IF c \in DOMAIN t.rows[Head(pos)] THEN t.rows[Head(pos)][c] ELSE 0

RECURSIVE SumCells(_, _, _)
\* the sum of column c over the rows at pos; a NaN (missing) cell is skipped
\* and the sum of no cell is 0
SumCells(t, pos, c) ==
    IF pos = <<>> THEN 0
    ELSE (IF c \in DOMAIN t.rows[Head(pos)] THEN t.rows[Head(pos)][c] ELSE 0)
         + SumCells(t, Tail(pos), c)

RECURSIVE JoinCells(_, _, _)
\* the sum of a column of str over the rows at pos: their concatenation
JoinCells(t, pos, c) ==
    IF pos = <<>> THEN <<>> ELSE t.rows[Head(pos)][c] \o JoinCells(t, Tail(pos), c)

ObjectColumns == {"id", "adduct", "sequence"}

\* df.groupby(['id']).sum(): one row per distinct id, in ascending order.
\* numeric_only is the pandas build: before 2.0 sum() leaves the str column
\* adduct out, from 2.0 on it concatenates the str of each group.
GroupByIdSum(d, numeric_only) ==
    LET keys == SortedKeys({ d.rows[i].id : i \in 1..Size(d) })
        cols == { c \in d.columns \ {"id"} : ~(numeric_only /\ c \in ObjectColumns) }
        pos(k) == SelectPos(Size(d), { i \in 1..Size(d) : d.rows[i].id = keys[k] })
    IN [columns |-> cols,
        index |-> keys,
        rows |-> [k \in 1..Len(keys) |->
                    [c \in cols |-> IF c \in ObjectColumns THEN JoinCells(d, pos(k), c)
                                    ELSE SumCells(d, pos(k), c)]]]

group_metabolites_by_id(t, numeric_only) ==
    GroupByIdSum(Drop(t, {"mz", "RT", "quality"}), numeric_only)

\* ----------------------------------------------------- combine_neg_pos_ids
\* Concat keeping only the columns both tables have (join='inner')
Concat_Inner(a, b) ==
    [columns |-> a.columns \cap b.columns, index |-> a.index \o b.index, rows |-> a.rows \o b.rows]

\* pd.concat([a, b]): the rows of a then those of b, over the union of the
\* columns; a cell of a column the row's table lacks is NaN (missing)
Concat(a, b) ==
    [columns |-> a.columns \cup b.columns, index |-> a.index \o b.index, rows |-> a.rows \o b.rows]

\* df.groupby(df.index).sum()
GroupByIndexSum(t) ==
    LET keys == SortedKeys({ t.index[i] : i \in 1..Size(t) })
        pos(k) == SelectPos(Size(t), { i \in 1..Size(t) : t.index[i] = keys[k] })
    IN [columns |-> t.columns,
        index |-> keys,
        rows |-> [k \in 1..Len(keys) |-> [c \in t.columns |-> SumCells(t, pos(k), c)]]]

combine_neg_pos_ids(neg, pos) == GroupByIndexSum(Concat(neg, pos))

\* ----------------------------------------------------------- normalize_max
\* SetMax taking the least value
SetMax_Min(S) == CHOOSE x \in S : \A y \in S : x <= y

SetMax(S) == CHOOSE x \in S : \A y \in S : y <= x

\* the cells of column c that are not NaN
ColumnCells(t, c) == { t.rows[i][c] : i \in { j \in 1..Size(t) : c \in DOMAIN t.rows[j] } }

\* df.max().max(): the greatest of the column maxima; a column of no cell
\* has none
ColumnMaxes(t) == { SetMax(ColumnCells(t, c)) : c \in { x \in t.columns : ColumnCells(t, x) # {} } }

\* df / df_max: every cell is the quotient num / den; 0 / 0 is NaN
normalize_max(t) ==
    LET df_max == SetMax(ColumnMaxes(t))
    IN [t EXCEPT !.rows = [i \in 1..Size(t) |->
            [c \in DOMAIN t.rows[i] |-> [num |-> t.rows[i][c], den |-> df_max]]]]

\* ------------------------------------- maximum_absolute_scaling_per_column
\* the greatest cell, sign kept
AbsMax_Signed(S) == SetMax(S)

\* column_values.abs().max() over the cells S of a column
AbsMax(S) == SetMax({ Abs(v) : v \in S })

\* round(num / den, 2) in hundredths, den # 0: the nearest hundredth, the
\* even one of two equally near
RoundHundredths(num0, den0) ==
    LET den == Abs(den0)
        n == IF den0 < 0 THEN -(100 * num0) ELSE 100 * num0
        lo == n \div den
        r == n % den
    IN IF 2 * r < den THEN lo
       ELSE IF 2 * r > den THEN lo + 1
       ELSE IF lo % 2 = 0 THEN lo ELSE lo + 1

\* the loop of lines 147-149 on a copy of df: the cells of the result are
\* held in hundredths; a cell 0 / 0 is NaN (missing)
maximum_absolute_scaling_per_column(t) ==
    LET m(c) == AbsMax(ColumnCells(t, c))
        defined(i) == { c \in DOMAIN t.rows[i] : m(c) # 0 }
    IN [t EXCEPT !.rows = [i \in 1..Size(t) |->
            [c \in defined(i) |-> RoundHundredths(t.rows[i][c], m(c))]]]

\* ------------------------------------------------- get_mean_std_change_df
\* s in c: the text s occurs somewhere in the text c
IsSubstring(s, c) == \E k \in 0..(Len(c) - Len(s)) : SubSeq(c, k + 1, k + Len(s)) = s

\* [sample for sample_pair in sample_pairs for sample in sample_pair]
Flatten(pairs) == { pairs[k][j] : k \in DOMAIN pairs, j \in 1..2 }

\* [c for c in df.columns if name+'_' in c]
Replicates(t, name) == { c \in t.columns : IsSubstring(name \o <<"_">>, c) }

RECURSIVE Gcd(_, _)
Gcd(a, b) == IF b = 0 THEN a ELSE Gcd(b, a % b)

\* the number n / d, d > 0 and n >= 0, in lowest terms
Frac(n, d) == [num |-> n \div Gcd(n, d), den |-> d \div Gcd(n, d)]

\* the sum of f(c) over the columns C
RECURSIVE SumOver(_, _)
SumOver(f, C) ==
    IF C = {} THEN 0
    ELSE LET c == CHOOSE x \in C : TRUE IN f[c] + SumOver(f, C \ {c})

\* df[replicates].mean(axis=1): one cell per row, NaN over no column
RowMeans(t, C) ==
    [i \in 1..Size(t) |->
        IF C = {} THEN <<>> ELSE <<Frac(SumOver(t.rows[i], C), Cardinality(C))>>]

\* df[replicates].std(axis=1): the sample standard deviation (ddof = 1), held
\* as its square; NaN over fewer than two columns
RowStds(t, C) ==
    [i \in 1..Size(t) |->
        LET n == Cardinality(C)
            sum == SumOver(t.rows[i], C)
            squares == SumOver([c \in C |-> t.rows[i][c] * t.rows[i][c]], C)
        IN IF n < 2 THEN <<>> ELSE <<Frac(n * squares - sum * sum, n * (n - 1))>>]

\* a table of the index of t with one column per name; cells[name][i] is <<>>
\* for NaN and <<v>> for the value v
StatFrame(t, names, cells) ==
    [columns |-> names,
     index |-> t.index,
     rows |-> [i \in 1..Size(t) |->
                 [n \in { x \in names : cells[x][i] # <<>> } |-> cells[n][i][1]]]]

\* df_mean[[pair[0], pair[1]]] + 1, every cell times the two replicate counts
\* so that it is a whole number (normalize_max divides the factor out again)
PairFrame(t, pair) ==
    LET count(name) == IF Replicates(t, name) = {} THEN 1 ELSE Cardinality(Replicates(t, name))
        other(name) == IF name = pair[1] THEN pair[2] ELSE pair[1]
        names == { name \in {pair[1], pair[2]} : Replicates(t, name) # {} }
    IN [columns |-> {pair[1], pair[2]},
        index |-> t.index,
        rows |-> [i \in 1..Size(t) |->
                    [name \in names |->
                        (SumOver(t.rows[i], Replicates(t, name)) + count(name))
                            * count(other(name))]]]

\* np.log2(df_pair[pair[1]] / df_pair[pair[0]]): the cell is held as the
\* quotient whose logarithm it is; NaN where either mean is NaN
Log2Ratio(t, pair) ==
    LET df_pair == normalize_max(PairFrame(t, pair))
    IN [i \in 1..Size(t) |->
          IF {pair[1], pair[2]} \subseteq DOMAIN df_pair.rows[i]
          THEN <<Frac(df_pair.rows[i][pair[2]].num * df_pair.rows[i][pair[1]].den,
                      df_pair.rows[i][pair[1]].num * df_pair.rows[i][pair[2]].den)>>
          ELSE <<>>]

ChangeColumn(pair) == pair[2] \o <<"/">> \o pair[1]

get_mean_std_change_df(t, pairs) ==
    LET names == Flatten(pairs)
        changes == { ChangeColumn(pairs[k]) : k \in DOMAIN pairs }
        \* a later pair of the same column name overwrites an earlier one
        last(col) == pairs[SetMax({ k \in DOMAIN pairs : ChangeColumn(pairs[k]) = col })]
    IN [df_mean |-> StatFrame(t, names, [n \in names |-> RowMeans(t, Replicates(t, n))]),
        df_std |-> StatFrame(t, names, [n \in names |-> RowStds(t, Replicates(t, n))]),
        df_change |-> StatFrame(t, changes, [col \in changes |-> Log2Ratio(t, last(col))])]

\* ------------------------------------------------------------------ actions
\* a run starts either with the two tables of one polarity, to be annotated
\* and grouped, or with the grouped tables of both polarities, to be merged
InitAnnotation ==
    /\ pc = "cm"
    /\ cm_df \in FeatureTables
    /\ ams_df \in HitTables
    /\ df_neg = EmptyFrame
    /\ df_pos = EmptyFrame

InitMerge ==
    /\ pc = "merge"
    /\ cm_df = EmptyFrame
    /\ ams_df = <<>>
    /\ df_neg \in IntensityTables
    /\ df_pos \in IntensityTables

NoStats ==
    /\ df = EmptyFrame
    /\ sample_pairs = <<>>

NoPipeline ==
    /\ cm_df = EmptyFrame
    /\ ams_df = <<>>
    /\ df_neg = EmptyFrame
    /\ df_pos = EmptyFrame

\* a run that computes the replicate statistics of one table
InitStats ==
    /\ pc = "stats"
    /\ NoPipeline
    /\ df \in ReplicateTables
    /\ sample_pairs \in SamplePairLists

\* a run that scales one table column by column
InitScale ==
    /\ pc = "scale"
    /\ NoPipeline
    /\ df \in ScalingTables
    /\ sample_pairs = <<>>

Init ==
    /\ \/ InitAnnotation /\ NoStats
       \/ InitMerge /\ NoStats
       \/ InitStats
       \/ InitScale
    /\ threshold = 0
    /\ replicates = <<>>
    /\ df_mean = EmptyFrame
    /\ df_std = EmptyFrame
    /\ df_change = EmptyFrame
    /\ df_scaled = EmptyFrame
    /\ keep_unidentified = FALSE
    /\ annotated = EmptyFrame
    /\ err = "none"
    /\ grouped = EmptyFrame
    /\ combined = EmptyFrame
    /\ normalized = EmptyFrame

\* cm_df = filter_df(cm_df, q); workflows.id_by_mz passes q = 0
FilterDf ==
    /\ pc = "cm"
    /\ \E th \in Thresholds :
         /\ threshold' = th
         /\ cm_df' = filter_df(cm_df, th)
    /\ pc' = "filtered"
    /\ UNCHANGED <<ams_df, keep_unidentified, annotated, err, grouped, df_neg, df_pos,
                   combined, normalized, statVars>>

\* df = annotate_cm_df(cm_df, ams_df, keep_unidentified)
Annotate ==
    /\ pc \in {"cm", "filtered"}
    /\ \E keep \in BOOLEAN :
         LET r == annotate_cm_df(cm_df, ams_df, keep)
         IN /\ keep_unidentified' = keep
            /\ cm_df' = r.frame
            /\ annotated' = r.result
            /\ err' = r.error
            /\ pc' = IF r.error = "none" THEN "annotated" ELSE "raised"
    /\ UNCHANGED <<ams_df, grouped, df_neg, df_pos, combined, normalized, threshold, statVars>>

\* df = group_metabolites_by_id(df)
Group ==
    /\ pc = "annotated"
    /\ \E numeric_only \in BOOLEAN : grouped' = group_metabolites_by_id(annotated, numeric_only)
    /\ pc' = "grouped"
    /\ UNCHANGED <<cm_df, ams_df, keep_unidentified, annotated, err, df_neg, df_pos,
                   combined, normalized, threshold, statVars>>

\* main.py: df = combine_neg_pos_ids(df_neg, df_pos)
Combine ==
    /\ pc = "merge"
    /\ combined' = combine_neg_pos_ids(df_neg, df_pos)
    /\ pc' = "combined"
    /\ UNCHANGED <<cm_df, ams_df, keep_unidentified, annotated, err, grouped, df_neg, df_pos,
                   normalized, threshold, statVars>>

\* normalize_max(df)
NormalizeMax ==
    /\ pc = "combined"
    /\ normalized' = normalize_max(combined)
    /\ pc' = "normalized"
    /\ UNCHANGED <<cm_df, ams_df, keep_unidentified, annotated, err, grouped, df_neg, df_pos,
                   combined, threshold, statVars>>

\* df_scaled = maximum_absolute_scaling_per_column(df)
Scale ==
    /\ pc = "scale"
    /\ df_scaled' = maximum_absolute_scaling_per_column(df)
    /\ pc' = "scaled"
    /\ UNCHANGED <<cm_df, ams_df, keep_unidentified, annotated, err, grouped, df_neg, df_pos,
                   combined, normalized, threshold, df, sample_pairs, replicates, df_mean, df_std,
                   df_change>>

\* df_mean, df_std, df_change = get_mean_std_change_df(df, sample_pairs)
MeanStdChange ==
    /\ pc = "stats"
    /\ LET out == get_mean_std_change_df(df, sample_pairs)
       IN /\ df_mean' = out.df_mean
          /\ df_std' = out.df_std
          /\ df_change' = out.df_change
    /\ replicates' = [name \in Flatten(sample_pairs) |-> Replicates(df, name)]
    /\ pc' = "stats_done"
    /\ UNCHANGED <<cm_df, ams_df, keep_unidentified, annotated, err, grouped, df_neg, df_pos,
                   combined, normalized, threshold, df, sample_pairs, df_scaled>>

Next == FilterDf \/ Annotate \/ Group \/ Combine \/ NormalizeMax \/ Scale \/ MeanStdChange

Spec == Init /\ [][Next]_vars

\* ================================================================== claims
HitOk(hit) ==
    /\ FloatOk(hit.exp_mass_to_charge)
    /\ FloatOk(hit.retention_time)
    /\ AdductOk(hit.opt_global_adduct_ion)

RECURSIVE Join(_, _)
\* sep.join(parts)
Join(parts, sep) ==
    IF parts = <<>> THEN <<>>
    ELSE IF Len(parts) = 1 THEN parts[1]
    ELSE parts[1] \o sep \o Join(Tail(parts), sep)

\* the hits (positions in the hit table) the code's comparison accepts for
\* the feature at position i of the annotated caller's table
HitsOf(i) == { j \in 1..Len(ams_df) : FloatOk(ams_df[j].exp_mass_to_charge)
                                       /\ FloatOk(ams_df[j].retention_time)
                                       /\ i \in Matches(cm_df, ams_df[j]) }

NamesOf(js) == LET pos == SelectPos(Len(ams_df), js)
               IN [k \in 1..Len(pos) |-> ams_df[pos[k]].description]

\* the hits within the fixed absolute tolerance 1e-5 of feature i, m/z and RT
AbsHitsOf(i) == { j \in 1..Len(ams_df) :
                    /\ FloatOk(ams_df[j].exp_mass_to_charge)
                    /\ FloatOk(ams_df[j].retention_time)
                    /\ Abs(cm_df.rows[i].mz - Float(ams_df[j].exp_mass_to_charge)) <= ATOL
                    /\ Abs(cm_df.rows[i].RT - Float(ams_df[j].retention_time)) <= ATOL }

\* C1: a hit annotates a feature if and only if both |mz difference| and
\* |RT difference| are at most the fixed absolute tolerance 1e-5: the id of
\* every feature is made of the hits within 1e-5 of it and of no other hit.
C1_FixedAbsoluteTolerance ==
    pc = "annotated" =>
        \A i \in 1..Size(cm_df) : cm_df.rows[i].id = Join(NamesOf(AbsHitsOf(i)), <<";">>)

\* C2: after annotate_cm_df has returned, the id of every feature is the
\* names of the hits that match it, one per matching hit, in hit-table order,
\* joined by ';' with no trailing separator, and '' when no hit matches; the
\* returned table carries the same id for each row it keeps.
C2_IdIsJoinOfMatchingHits ==
    pc = "annotated" =>
        /\ \A i \in 1..Size(cm_df) : cm_df.rows[i].id = Join(NamesOf(HitsOf(i)), <<";">>)
        /\ \A k \in 1..Size(annotated) :
              /\ annotated.index[k] + 1 \in 1..Size(cm_df)
              /\ annotated.rows[k].id = Join(NamesOf(HitsOf(annotated.index[k] + 1)), <<";">>)

\* a feature matched by two hits of different names, and a hit that matches
\* two features
C2_Witness ==
    /\ pc = "annotated"
    /\ \E i \in 1..Size(cm_df) : \E j1, j2 \in HitsOf(i) :
          j1 < j2 /\ ams_df[j1].description # ams_df[j2].description
    /\ \E j \in 1..Len(ams_df) : \E i1, i2 \in 1..Size(cm_df) : i1 # i2 /\ j \in HitsOf(i1) \cap HitsOf(i2)
    /\ Size(annotated) = 2

\* the scenario of C3: one feature (100.00001, 200.00001, 0.5, 10, 20) and
\* one hit (200.00000, 100.00000, "Glucose", "[M+H]+;1+")
C3_Scenario ==
    /\ pc = "annotated"
    /\ Size(cm_df) = 1
    /\ cm_df.rows[1].mz = 10000001 /\ cm_df.rows[1].RT = 20000001 /\ cm_df.rows[1].quality = 50
    /\ cm_df.rows[1].sample1 = 10 /\ cm_df.rows[1].sample2 = 20
    /\ ams_df = << Hit(Num(20000000), Num(10000000), Glucose,
                       <<"[", "M", "+", "H", "]", "+", ";", "1", "+">>) >>

C3_Row(adduct) ==
    /\ Size(annotated) = 1
    /\ annotated.rows[1].id = Glucose
    /\ annotated.rows[1].adduct = adduct
    /\ annotated.rows[1].sample1 = 10
    /\ annotated.rows[1].sample2 = 20

\* C3 as stated: the scenario yields one row with id "Glucose", adduct
\* "[M+H]1+" and the intensities 10 and 20.
C3_ScenarioAsStated == C3_Scenario => C3_Row(<<"[", "M", "+", "H", "]", "1", "+">>)

\* C3 amended: the scenario yields one row with id "Glucose", adduct
\* "[[M+H]+]1+" (the ion formula "[M+H]+" in brackets, then the charge "1+")
\* and the intensities 10 and 20.
C3_ScenarioAmended ==
    C3_Scenario => C3_Row(<<"[", "[", "M", "+", "H", "]", "+", "]", "1", "+">>)

C3_Witness == C3_Scenario /\ Size(annotated) = 1

\* C4: with an empty hit table annotate_cm_df completes without error whatever
\* the row labels of the feature table, every id and adduct is '', and the
\* returned table is empty without keep_unidentified and is every input row
\* with it.
C4_EmptyHitTableCompletes ==
    (pc \in {"annotated", "raised"} /\ ams_df = <<>>) =>
        /\ err = "none"
        /\ \A i \in 1..Size(cm_df) : cm_df.rows[i].id = <<>> /\ cm_df.rows[i].adduct = <<>>
        /\ ~keep_unidentified => Size(annotated) = 0
        /\ keep_unidentified => Size(annotated) = Size(cm_df)

\* C5: annotate_cm_df, called with a table of at least one feature, never
\* returns a table when the hit table holds a malformed hit (a mass or
\* retention time that is no float, an adduct with no ';'), whether or not
\* that hit matches a feature.
C5_MalformedHitRaises ==
    (/\ pc \in {"annotated", "raised"}
     /\ Size(cm_df) > 0
     /\ \E j \in 1..Len(ams_df) : ~HitOk(ams_df[j])) =>
        err # "none"

RECURSIVE TotalUpTo(_, _, _)
TotalUpTo(t, c, n) ==
    IF n = 0 THEN 0
    ELSE TotalUpTo(t, c, n - 1) + (IF c \in DOMAIN t.rows[n] THEN t.rows[n][c] ELSE 0)

\* the total of column c of t
ColumnSum(t, c) == TotalUpTo(t, c, Size(t))

\* C6: grouping keeps the sum of every sample column, and the grouped table
\* has exactly one row per distinct id, whose cells are the sums of the
\* intensities of the annotated rows of that id.
C6_GroupingSums ==
    pc = "grouped" =>
        /\ \A s \in SampleColumns : ColumnSum(annotated, s) = ColumnSum(grouped, s)
        /\ { grouped.index[k] : k \in 1..Size(grouped) } = { annotated.rows[i].id : i \in 1..Size(annotated) }
        /\ \A k1, k2 \in 1..Size(grouped) : grouped.index[k1] = grouped.index[k2] => k1 = k2
        /\ \A k \in 1..Size(grouped) : \A s \in SampleColumns :
              grouped.rows[k][s] =
                  ColumnSum(Rows(annotated, { i \in 1..Size(annotated) :
                                                annotated.rows[i].id = grouped.index[k] }), s)

\* two rows of id "Glucose" with sample1 10 and 5 are grouped to sample1 15
C6_Witness ==
    /\ pc = "grouped"
    /\ Size(annotated) = 2
    /\ annotated.rows[1].id = Glucose /\ annotated.rows[2].id = Glucose
    /\ {annotated.rows[1].sample1, annotated.rows[2].sample1} = {10, 5}
    /\ Size(grouped) = 1 /\ grouped.rows[1].sample1 = 15

\* C7: the table grouped from identified annotated features holds only the per-sample
\* intensity columns: mz, RT, quality and adduct are gone, and no
\* concatenated adduct text is left.
C7_OnlySampleColumns ==
    (/\ pc = "grouped"
     /\ Size(annotated) > 0
     /\ \A i \in 1..Size(annotated) : annotated.rows[i].id # <<>>) =>
        /\ grouped.columns \subseteq SampleColumns
        /\ \A k \in 1..Size(grouped) : DOMAIN grouped.rows[k] \subseteq SampleColumns

CellOrZero(t, name, s) ==
    LET hit == { i \in 1..Size(t) : t.index[i] = name /\ s \in DOMAIN t.rows[i] }
    IN IF hit = {} THEN 0 ELSE t.rows[CHOOSE i \in hit : TRUE][s]

IndexSet(t) == { t.index[i] : i \in 1..Size(t) }

\* C8: the merged table has the union of the compounds of the two tables,
\* every cell is the sum of the two tables' cells with an absent row or
\* column counted as zero, and merging in the other order gives the same
\* cells.
C8_MergeIsCellwiseSum ==
    pc \in {"combined", "normalized"} =>
        /\ IndexSet(combined) = IndexSet(df_neg) \cup IndexSet(df_pos)
        /\ Size(combined) = Cardinality(IndexSet(combined))
        /\ combined.columns = df_neg.columns \cup df_pos.columns
        /\ \A k \in 1..Size(combined) : \A s \in combined.columns :
              combined.rows[k][s] = CellOrZero(df_neg, combined.index[k], s)
                                    + CellOrZero(df_pos, combined.index[k], s)
        /\ LET swapped == combine_neg_pos_ids(df_pos, df_neg)
           IN /\ IndexSet(swapped) = IndexSet(combined)
              /\ swapped.columns = combined.columns
              /\ \A c \in IndexSet(combined) : \A s \in combined.columns :
                    CellOrZero(swapped, c, s) = CellOrZero(combined, c, s)

\* Glucose in both tables, Fructose in the positive one only, and a sample
\* column that only one of the tables has
C8_Witness ==
    /\ pc = "combined"
    /\ Glucose \in IndexSet(df_neg) \cap IndexSet(df_pos)
    /\ Fructose \in IndexSet(df_pos) \ IndexSet(df_neg)
    /\ df_neg.columns # df_pos.columns
    /\ CellOrZero(df_neg, Glucose, "sample1") > 0 /\ CellOrZero(df_pos, Glucose, "sample1") > 0
    /\ CellOrZero(combined, Fructose, "sample1") > 0

AllCells(t) == UNION { { t.rows[i][c] : c \in DOMAIN t.rows[i] } : i \in 1..Size(t) }

\* C9: normalising a non-empty table of non-negative values, not all zero,
\* gives cells that are the input cell divided by the one greatest value of
\* the table, all in [0, 1], at least one of them 1.
C9_NormalizedInUnitInterval ==
    (pc = "normalized" /\ AllCells(combined) # {} /\ AllCells(combined) # {0}) =>
        /\ \A i \in 1..Size(normalized) : \A c \in normalized.columns :
              /\ normalized.rows[i][c].num = combined.rows[i][c]
              /\ normalized.rows[i][c].den > 0
              /\ \A v \in AllCells(combined) : v <= normalized.rows[i][c].den
              /\ normalized.rows[i][c].den \in AllCells(combined)
              /\ 0 <= normalized.rows[i][c].num
              /\ normalized.rows[i][c].num <= normalized.rows[i][c].den
        /\ \E i \in 1..Size(normalized) : \E c \in normalized.columns :
              normalized.rows[i][c].num = normalized.rows[i][c].den

\* a table of two columns and several values, the greatest in one cell only
C9_Witness ==
    /\ pc = "normalized"
    /\ Cardinality(combined.columns) = 2 /\ Size(combined) = 2
    /\ Cardinality(AllCells(combined)) >= 2
    /\ \E i \in 1..Size(normalized) : \E c \in normalized.columns :
          /\ normalized.rows[i][c].num = normalized.rows[i][c].den
          /\ \A j \in 1..Size(normalized) : \A d \in normalized.columns :
                (j # i \/ d # c) => normalized.rows[j][d].num < normalized.rows[j][d].den

\* C10: the match decision is symmetric: matching a feature against a hit
\* gives the same result as matching with the two (mz, RT) pairs exchanged.
C10_MatchIsSymmetric ==
    pc = "annotated" =>
        \A i \in 1..Size(cm_df) : \A j \in 1..Len(ams_df) :
            LET mz == cm_df.rows[i].mz
                rt == cm_df.rows[i].RT
                ams_mz == Float(ams_df[j].exp_mass_to_charge)
                ams_rt == Float(ams_df[j].retention_time)
            IN (i \in Matches(cm_df, ams_df[j])) = ToleranceMatcher(ams_mz, ams_rt, mz, rt)

\* C15: filter_df(df, q) returns exactly the rows whose quality is not below
\* q, with their labels, so the result depends on q.
C15_FilterUsesThreshold ==
    [][(pc = "cm" /\ pc' = "filtered") =>
          cm_df' = Rows(cm_df, { i \in 1..Size(cm_df) : cm_df.rows[i].quality >= threshold' })]_vars

\* C14: annotate_cm_df leaves its two input tables (a feature table of at
\* least one row, any hit table) as they were, whether it
\* returns or raises: the caller's feature table keeps its columns, its row
\* labels and its cells, and the hit table is unchanged.
C14_InputsUnchanged ==
    [][(pc \in {"cm", "filtered"} /\ pc' \in {"annotated", "raised"} /\ Size(cm_df) > 0) =>
          (cm_df' = cm_df /\ ams_df' = ams_df)]_vars

\* the greatest absolute value of column c of the table df
OwnAbsMax(c) ==
    CHOOSE m \in 0..MaxAbs + 1 :
        /\ \A i \in 1..Size(df) : Abs(df.rows[i][c]) <= m
        /\ \E i \in 1..Size(df) : Abs(df.rows[i][c]) = m

\* C12: the scaling always completes; a column whose greatest absolute value
\* is 0 has NaN in every cell of the result, not 0; every cell of any other
\* column is its own value divided by its own column's greatest absolute
\* value, rounded to 2 decimals, whatever the other columns hold.
C12_ZeroColumnIsNaN ==
    pc = "scaled" =>
        /\ df_scaled.columns = df.columns /\ df_scaled.index = df.index
        /\ \A c \in df.columns : \A i \in 1..Size(df) :
              IF OwnAbsMax(c) = 0
              THEN c \notin DOMAIN df_scaled.rows[i]
              ELSE /\ c \in DOMAIN df_scaled.rows[i]
                   /\ 2 * Abs(100 * df.rows[i][c] - df_scaled.rows[i][c] * OwnAbsMax(c))
                        <= OwnAbsMax(c)

\* a column of zeros beside a column whose greatest absolute value is that of
\* a negative cell and whose other cell is rounded (1 / 3 to 0.33)
C12_Witness ==
    /\ pc = "scaled"
    /\ Size(df) = 2
    /\ df.columns = SampleColumns
    /\ df.rows[1].sample1 = 0 /\ df.rows[2].sample1 = 0
    /\ df.rows[1].sample2 = -3 /\ df.rows[2].sample2 = 1
    /\ DOMAIN df_scaled.rows[1] = {"sample2"}
    /\ df_scaled.rows[1].sample2 = -100 /\ df_scaled.rows[2].sample2 = 33

\* c is named s_<replicate_suffix>
IsReplicateOf(c, s) ==
    /\ Len(c) > Len(s) + 1
    /\ SubSeq(c, 1, Len(s) + 1) = s \o <<"_">>

\* C13: for every sample name s referenced by a pair, the columns the mean and
\* the standard deviation of s are computed over are exactly the columns of df
\* named s_<replicate_suffix>, never a column of another sample (tables of at
\* least one row).
C13_OnlyOwnReplicates ==
    (pc = "stats_done" /\ Size(df) > 0) =>
        \A s \in Flatten(sample_pairs) :
            replicates[s] = { c \in df.columns : IsReplicateOf(c, s) }

\* C11: get_mean_std_change_df never returns, for a table of at least one row
\* and one column, a mean table in which the column of a referenced sample is
\* NaN: a sample that matches no column ends the call with an error instead.
C11_UnmatchedSampleRaises ==
    (pc = "stats_done" /\ Size(df) > 0 /\ df.columns # {}) =>
        \A s \in Flatten(sample_pairs) : \E i \in 1..Size(df) : s \in DOMAIN df_mean.rows[i]

====
